---- MODULE Spec2Model ----
(***************************************************************************)
(* A model of the boiler-data enrichment pipeline                          *)
(* (src/enrich_boiler_data.py): the token-bucket RateLimiter, the          *)
(* per-record workflow _enrich_entry, and the checkpointed, multi-threaded *)
(* run enrich_data with its progress file and output file.                 *)
(*                                                                         *)
(* The specifications share the variables:                                 *)
(*   Spec       a run of enrich_data, killed and restarted                 *)
(*   SpecFair   Spec with the threads of the process scheduled fairly      *)
(*   SpecIO     Spec on a storage whose writes may fail                    *)
(*   SpecEntry  _enrich_entry applied to one entry and one set of          *)
(*              responses of the external services                         *)
(*   SpecRL     concurrent callers of RateLimiter.acquire                  *)
(*   SpecFlush  _save_output called several times on the same slots        *)
(*   SpecDesc   the description made of the snippet of a search result     *)
(***************************************************************************)
EXTENDS Integers, Sequences, FiniteSets, TLC

(***************************************************************************)
(* Bounds of the model.                                                    *)
(***************************************************************************)
\* longest input document (number of boiler_faults entries)
MaxRecords == 2
\* number of times the process is started (a kill is followed by a restart)
MaxRuns == 2
\* the largest batch_size, and max_workers and test_count of the runs modelled
MaxBatchSize == 2
MaxWorkers == 2
TestCount == 1
\* the retry budget the specification attributes to each call site; the
\* generation service is scripted for up to MaxRetries + 1 attempts
MaxRetries == 2
\* the rate limiter: threads that call acquire, acquire calls in all, the
\* last instant of the clock, and the fraction of a token that is told apart
NumCallers == 2
MaxAcquires == 5
MaxTime == 7
Resolution == 2
\* _save_output alone: the last reading of the clock and the number of calls
MaxClock == 2
MaxFlushes == 3

(***************************************************************************)
(* Dictionaries.  A Python dict is a function from its keys (strings) to   *)
(* values; dict.copy() is the function itself, d[k] = v is Put.            *)
(***************************************************************************)
Put(d, k, v) == [x \in (DOMAIN d) \cup {k} |-> IF x = k THEN v ELSE d[x]]

Has(d, k) == k \in DOMAIN d

\* dict.get(k, default)
Get(d, k, default) == IF k \in DOMAIN d THEN d[k] ELSE default

\* Python's None, as the value of an empty slot of enriched_faults
None == [none |-> TRUE]

(***************************************************************************)
(* Input entries.  The identity key is (maker, model, error_code).         *)
(***************************************************************************)
Fault(code, cause, ts) ==
    [maker |-> "Vaillant", model |-> "ecoTEC", error_code |-> code,
     possible_cause |-> cause, troubleshooting |-> ts]

\* two entries with the same identity key and one with another key
RawRecords == { Fault("F28", "gas", "x"), Fault("F28", "gas", "y"),
                Fault("F29", "fan", "x") }

IdentityKey(entry) == <<entry.maker, entry.model, entry.error_code>>

(***************************************************************************)
(* The external services.  An environment fixes what the services answer   *)
(* for one entry:                                                          *)
(*   has_key     PERPLEXITY_API_KEY is set                                 *)
(*   context     the answers of the Perplexity context search              *)
(*   generation  the answers of the OpenAI call                            *)
(*   resources   the answers of the Perplexity resource search             *)
(* each a script: the answer to the first attempt, to the second, ...      *)
(***************************************************************************)
RECURSIVE Repeat(_, _)
Repeat(x, n) == IF n = 0 THEN <<>> ELSE <<x>> \o Repeat(x, n - 1)

RateLimited == [kind |-> "raise", error |-> "RateLimitError"]

ConnectionError == [kind |-> "raise", error |-> "APIConnectionError"]

Text(lines) == [kind |-> "text", lines |-> lines]

\* one-line JSON documents the generation service may return
JsonFull == "{ai_overview, troubleshooting}"
JsonNoTroubleshooting == "{ai_overview}"
JsonEmptyTroubleshooting == "{ai_overview, troubleshooting=''}"
JsonNoOverview == "{troubleshooting}"
JsonList == "[]"

\* the lines that open or close a markdown code block (three backticks)
Fence == "[fence]"
FenceJson == "[fence]json"

JsonLines == {JsonFull, JsonNoTroubleshooting, JsonEmptyTroubleshooting,
              JsonNoOverview, JsonList}

\* output_text of the generation service, line by line
OutputTexts ==
    { <<JsonFull>>, <<JsonNoTroubleshooting>>, <<JsonEmptyTroubleshooting>>,
      <<JsonNoOverview>>, <<JsonList>>,
      <<FenceJson, JsonFull, Fence>>, <<Fence, "json", JsonFull, Fence>>,
      <<Fence, JsonFull>>, <<"", JsonFull, "">>,
      <<"I cannot help">>, <<"">>, <<>> }

GenResponses == {RateLimited, ConnectionError} \cup {Text(t) : t \in OutputTexts}

\* r rate-limited answers, then a last answer
GenScript(r, last) == Repeat(RateLimited, r) \o <<last>>

GenScripts == { GenScript(r, last) : r \in 0..MaxRetries, last \in GenResponses }

(***************************************************************************)
(* The snippet of a search result is a text held as its characters, and so *)
(* is the description _search_perplexity makes of it (lines 244-250).      *)
(***************************************************************************)
Whitespace == {" ", "\n"}

Least(S) == CHOOSE k \in S : \A j \in S : k <= j

\* str.split(): the maximal runs of characters that are not whitespace
RECURSIVE Split(_)
Split(text) ==
    LET starts == { k \in 1..Len(text) : text[k] \notin Whitespace }
    IN IF starts = {} THEN <<>>
       ELSE LET first == Least(starts)
                stops == { k \in first..Len(text) : text[k] \in Whitespace }
                last == IF stops = {} THEN Len(text) ELSE Least(stops) - 1
            IN <<SubSeq(text, first, last)>>
               \o Split(SubSeq(text, last + 1, Len(text)))

\* ' '.join(words)
RECURSIVE Join(_)
Join(words) ==
    IF words = <<>> THEN <<>>
    ELSE IF Len(words) = 1 THEN words[1]
    ELSE words[1] \o <<" ">> \o Join(Tail(words))

\* line 246: ' '.join(snippet.split())
Normalize(snippet) == Join(Split(snippet))

\* text.rsplit(' ', 1)[0]: what precedes the last space, the text if it has none
RSplitHead(text) ==
    LET spaces == { k \in 1..Len(text) : text[k] = " " }
    IN IF spaces = {} THEN text
       ELSE SubSeq(text, 1, (CHOOSE k \in spaces : \A j \in spaces : j <= k) - 1)

Ellipsis == <<".", ".", ".">>

DescriptionLimit == 150

\* lines 244-250
Description(snippet) ==
    LET description == Normalize(snippet)
    IN IF Len(description) > DescriptionLimit
       THEN RSplitHead(SubSeq(description, 1, DescriptionLimit)) \o Ellipsis
       ELSE description

SearchResult(url, title, snippet) ==
    [url |-> url, title |-> title, snippet |-> snippet]

TooManyRequests == [kind |-> "raise", error |-> "HTTPError 429"]

\* a body that response.json() rejects
MalformedBody == [kind |-> "raise", error |-> "JSONDecodeError"]

SearchResponses ==
    { TooManyRequests, MalformedBody,
      [kind |-> "results", results |-> <<>>],
      [kind |-> "results",
       results |-> <<SearchResult("https://www.youtube.com/watch", "F28 fix",
                                  <<"r", "e", "s", "e", "t">>)>>],
      [kind |-> "results",
       results |-> <<SearchResult("https://www.diynot.com/f28", "F28 thread", <<>>),
                     SearchResult("https://example.com/f28", "F28 guide",
                                  <<"c", "h", "e", "c", "k", " ", " ", "g", "a", "s">>)>>] }

\* an answer, or a 429 and then a list of results
SearchScripts ==
    { <<a>> : a \in SearchResponses }
    \cup { <<TooManyRequests, a>> : a \in SearchResponses \ {TooManyRequests} }

Envs == [has_key : BOOLEAN, context : SearchScripts,
         generation : GenScripts, resources : SearchScripts]

\* self.model
ModelName == "gpt-5-mini-2025-08-07"

(***************************************************************************)
(* _search_perplexity_context: a string, "" on a missing key or on any     *)
(* exception.  The string is the list of the sources with a snippet.       *)
(***************************************************************************)
\* requests.post(...) followed by raise_for_status(): the answer used and the
\* attempts made
CallSearch(script) == [response |-> script[1], attempts |-> 1]

RECURSIVE ContextParts(_)
ContextParts(results) ==
    IF results = <<>> THEN <<>>
    ELSE LET r == Head(results)
         IN (IF r.snippet # <<>> THEN <<[source |-> r.title, content |-> r.snippet]>>
             ELSE <<>>) \o ContextParts(Tail(results))

\* a variant whose except clause returns the text of the error
SearchPerplexityContextLeaky(env) ==
    IF ~env.has_key THEN <<>>
    ELSE LET response == CallSearch(env.context).response
         IN IF response.kind = "raise"
            THEN <<[source |-> "error", content |-> response.error]>>
            ELSE ContextParts(response.results)

SearchPerplexityContext(env) ==
    IF ~env.has_key THEN <<>>
    ELSE LET response == CallSearch(env.context).response
         IN IF response.kind = "raise" THEN <<>>
            ELSE ContextParts(response.results)

\* the calls _search_perplexity_context makes, in order
ContextCalls(env) ==
    IF ~env.has_key THEN <<>>
    ELSE <<"acquire">> \o Repeat("context", CallSearch(env.context).attempts)

(***************************************************************************)
(* _search_perplexity: a list of resources, [] on a missing key or on any  *)
(* exception.                                                              *)
(***************************************************************************)
VideoUrls == {"https://www.youtube.com/watch"}

ForumUrls == {"https://www.diynot.com/f28"}

ResourceType(url) ==
    IF url \in VideoUrls THEN "video"
    ELSE IF url \in ForumUrls THEN "forum"
    ELSE "article"

RECURSIVE Resources(_)
Resources(results) ==
    IF results = <<>> THEN <<>>
    ELSE LET r == Head(results)
         IN <<[type |-> ResourceType(r.url), title |-> r.title, url |-> r.url,
               description |-> Description(r.snippet)]>>
            \o Resources(Tail(results))

SearchPerplexity(env) ==
    IF ~env.has_key THEN <<>>
    ELSE LET response == CallSearch(env.resources).response
         IN IF response.kind = "raise" THEN <<>>
            ELSE Resources(response.results)

ResourceCalls(env) ==
    IF ~env.has_key THEN <<>>
    ELSE <<"acquire">> \o Repeat("resources", CallSearch(env.resources).attempts)

(***************************************************************************)
(* The generation step of _enrich_entry.  The client is called once; what  *)
(* it raises leaves _enrich_entry through its except clause.               *)
(***************************************************************************)
\* self.client.responses.create(...): the answer used, the attempts made and
\* the backoff sleeps slept
CallGeneration(script) ==
    [response |-> script[1], attempts |-> 1, sleeps |-> <<>>]

\* str.strip() of a text held as lines: blank lines at both ends go
RECURSIVE StripLeft(_)
StripLeft(lines) ==
    IF lines # <<>> /\ Head(lines) = "" THEN StripLeft(Tail(lines)) ELSE lines

RECURSIVE StripRight(_)
StripRight(lines) ==
    IF lines # <<>> /\ lines[Len(lines)] = ""
    THEN StripRight(SubSeq(lines, 1, Len(lines) - 1))
    ELSE lines

Strip(lines) == StripRight(StripLeft(lines))

\* overview_text.startswith(three backticks) and .startswith('json')
StartsWithFence(lines) == lines # <<>> /\ lines[1] \in {Fence, FenceJson}

StartsWithJson(lines) == lines # <<>> /\ lines[1] = "json"

\* the text between the lines of a markdown code block, when there is one
StripCodeBlock(lines) ==
    IF StartsWithFence(lines) /\ Len(lines) > 2
    THEN LET inner == SubSeq(lines, 2, Len(lines) - 1)
         IN IF StartsWithJson(inner) THEN SubSeq(lines, 3, Len(lines) - 1)
            ELSE inner
    ELSE lines

Raise(error) == [raised |-> TRUE, error |-> error]

Return(value) == [raised |-> FALSE, value |-> value]

\* the value of a one-line JSON document
JsonValue(line) ==
    IF line = JsonFull
    THEN [ai_overview |-> "generated overview", troubleshooting |-> "generated steps"]
    ELSE IF line = JsonNoTroubleshooting THEN [ai_overview |-> "generated overview"]
    ELSE IF line = JsonEmptyTroubleshooting
    THEN [ai_overview |-> "generated overview", troubleshooting |-> ""]
    ELSE IF line = JsonNoOverview THEN [troubleshooting |-> "generated steps"]
    ELSE [list |-> <<>>]

\* json.loads: one JSON document, white space around it allowed
JsonLoads(lines) ==
    LET text == Strip(lines)
    IN IF Len(text) = 1 /\ text[1] \in JsonLines
       THEN Return(JsonValue(text[1]))
       ELSE Raise("JSONDecodeError")

\* lines 281-299: strip, reject an empty text, unwrap a code block, parse
ParseOverview(output_lines) ==
    LET overview_text == Strip(output_lines)
    IN IF overview_text = <<>>
       THEN Raise("Empty response from API for overview")
       ELSE JsonLoads(StripCodeBlock(overview_text))

IsDict(value) == ~Has(value, "list")

\* Python truthiness of dict.get(k): a present, non-empty value
Truthy(d, k) == Has(d, k) /\ d[k] # ""

(***************************************************************************)
(* _enrich_entry.  The result is the entry returned; calls is the          *)
(* sequence of calls made to the rate limiter and the external services.   *)
(***************************************************************************)
\* a variant whose except clause returns nothing
FailedEntryNone(entry, error, now) == None

\* a variant that blanks the troubleshooting text of a failed entry
FailedEntryBlanked(entry, error, now) ==
    Put(Put(entry, "troubleshooting", ""), "enrichment_metadata",
        [enriched_at |-> now, model_used |-> ModelName,
         error |-> error, success |-> FALSE])

\* the except clause: the original entry with error metadata
FailedEntry(entry, error, now) ==
    Put(entry, "enrichment_metadata",
        [enriched_at |-> now, model_used |-> ModelName,
         error |-> error, success |-> FALSE])

\* line 318: f"{self.model} + Perplexity Context"
EnrichedModelName == ModelName \o " + Perplexity Context"

\* lines 306-324
EnrichedEntry(entry, overview_data, helpful_resources, now) ==
    LET e1 == IF Truthy(overview_data, "troubleshooting")
              THEN Put(entry, "troubleshooting", overview_data.troubleshooting)
              ELSE entry
        e2 == Put(e1, "ai_overview", Get(overview_data, "ai_overview", ""))
        e3 == Put(e2, "helpful_resources", helpful_resources)
    IN Put(e3, "enrichment_metadata",
           [enriched_at |-> now, model_used |-> EnrichedModelName,
            web_search_enabled |-> TRUE, api_calls |-> 3, success |-> TRUE])

EnrichEntry(entry, env, now) ==
    LET context == SearchPerplexityContext(env)
        gen == CallGeneration(env.generation)
        before == ContextCalls(env) \o Repeat("generation", gen.attempts)
        outcome(result, calls) ==
            [result |-> result, calls |-> calls, context |-> context,
             attempts |-> gen.attempts, sleeps |-> gen.sleeps]
    IN IF gen.response.kind = "raise"
       THEN outcome(FailedEntry(entry, gen.response.error, now), before)
       ELSE LET parsed == ParseOverview(gen.response.lines)
            IN IF parsed.raised
               THEN outcome(FailedEntry(entry, parsed.error, now), before)
               ELSE IF ~IsDict(parsed.value)
               THEN outcome(FailedEntry(entry, "AttributeError", now),
                            before \o ResourceCalls(env))
               ELSE outcome(EnrichedEntry(entry, parsed.value,
                                          SearchPerplexity(env), now),
                            before \o ResourceCalls(env))

Success(record) == record.enrichment_metadata.success

\* a variant that enriches the entry itself: the entry passed in becomes the
\* record returned
EntryAfterAliased(entry, record) == record

\* lines 307 and 329: the record is built on entry.copy(), and the entry
\* passed in is as it was when _enrich_entry returns
EntryAfter(entry, record) == entry

(***************************************************************************)
(* State.                                                                  *)
(***************************************************************************)
VARIABLES
    \* ---- the run of enrich_data (Spec) ----
    input,              \* data.boiler_faults of the input file
    envOf,              \* what the external services answer for each input entry
    test_mode,          \* the --test flag
    batch_size,         \* self.batch_size
    run,                \* number of times the process was started; also the
                        \* reading of the clock (datetime.utcnow) in a process
    pc,                 \* where the main thread of the process is
    loaded,             \* what _load_progress returned when this process started
    processed_indices,  \* self.processed_indices
    boiler_faults,      \* the entries enrich_data indexes
    enriched_faults,    \* the slots, by index (0-based)
    future,             \* by index: "none", "queued", "running" or "finished"
    result,             \* by index: what the future returns
    slot_writes,        \* by index: results written to the slot in this process
    yielded,            \* the futures as_completed has yielded
    index,              \* the index whose completion is being handled
    completed_count,
    progress_file,      \* the progress file on disk
    output_file,        \* the output file on disk
    invoked,            \* by index: calls of _enrich_entry in this process
    flushes,            \* calls of _save_output that completed in this process
    resumed_after_flush,\* an earlier process was killed after a flush
    write_failed,       \* a write of a file failed in this process
    \* ---- _enrich_entry alone (SpecEntry) ----
    e_entry, e_env, e_out,
    \* ---- the rate limiter (SpecRL) ----
    tokens,             \* self.tokens, in units of 1/Resolution token
    last_refill,        \* self.last_refill, in ticks
    now,                \* time.time(), in ticks
    lock,               \* the caller that holds self.lock, 0 when free
    caller,             \* by caller: "idle", "sleeping"
    wake_at,            \* by caller: when its sleep ends at the earliest
    returned,           \* the acquire() calls that returned: time, caller, slept
    \* ---- _save_output alone (SpecFlush) ----
    f_slots,            \* the slots, by index
    f_test_mode,        \* the test_mode flag passed
    f_clock,            \* datetime.utcnow()
    f_written,          \* the documents written, in order
    \* ---- the description of a resource (SpecDesc) ----
    d_snippet,          \* the snippet of a search result, as characters
    d_description       \* the description made of it

\* what a run is given
config == <<input, envOf, test_mode, batch_size>>

pipeVars == <<config, run, pc, loaded, processed_indices,
              boiler_faults, enriched_faults, future, result, slot_writes,
              yielded, index, completed_count, progress_file, output_file,
              invoked, flushes, resumed_after_flush, write_failed>>

entryVars == <<e_entry, e_env, e_out>>

rlVars == <<tokens, last_refill, now, lock, caller, wake_at, returned>>

flushVars == <<f_slots, f_test_mode, f_clock, f_written>>

descVars == <<d_snippet, d_description>>

vars == <<pipeVars, entryVars, rlVars, flushVars, descVars>>

(***************************************************************************)
(* Files.  open(path, 'w') truncates the file; the content is there once   *)
(* json.dump has written it and the file is closed.  A process killed in   *)
(* between leaves the truncated file.                                      *)
(***************************************************************************)
Absent == [state |-> "absent"]

Truncated == [state |-> "truncated"]

\* json.dump({'processed_indices': list(self.processed_indices)}, f)
ProgressDocument(indices) == [state |-> "written", processed_indices |-> indices]

\* _save_output, lines 421-432
OutputDocument(faults, testMode, time) ==
    [state |-> "written",
     boiler_faults |-> faults,
     metadata |-> [total_entries |-> Len(faults), enriched_at |-> time,
                   model_used |-> ModelName, test_mode |-> testMode]]

(***************************************************************************)
(* enrich_data: the helpers.                                               *)
(***************************************************************************)
Min(a, b) == IF a < b THEN a ELSE b

\* lines 361-362: boiler_faults[:test_count] in test mode
Slice(faults, testMode) ==
    IF testMode THEN SubSeq(faults, 1, Min(TestCount, Len(faults))) ELSE faults

\* the indices of a list, as enumerate gives them
Indices(faults) == 0 .. (Len(faults) - 1)

\* a variant that submits every index, checkpointed or not
EntriesToProcessAll(faults, processed) == Indices(faults)

\* lines 369-374: the indices submitted to the pool
EntriesToProcess(faults, processed) ==
    { i \in Indices(faults) : i \notin processed }

\* lines 366-372: a processed index is pre-filled with its input entry
Prefill(faults, processed) ==
    [i \in Indices(faults) |-> IF i \in processed THEN faults[i + 1] ELSE None]

\* [e for e in enriched_faults if e is not None]
RECURSIVE NonEmptyFrom(_, _, _)
NonEmptyFrom(slots, i, n) ==
    IF i >= n THEN <<>>
    ELSE (IF slots[i] = None THEN <<>> ELSE <<slots[i]>>)
         \o NonEmptyFrom(slots, i + 1, n)

\* a variant that keeps the empty slots
NonEmptyAll(slots) == [k \in 1..Cardinality(DOMAIN slots) |-> slots[k - 1]]

NonEmpty(slots) == NonEmptyFrom(slots, 0, Cardinality(DOMAIN slots))

\* a variant that forgets the index
AddProcessedNothing(processed, i) == processed

\* line 106
AddProcessed(processed, i) == processed \cup {i}

\* line 400
BatchComplete(count) == count % batch_size = 0

\* _load_progress, lines 97-101 (a file that json.load rejects is handled in Start)
LoadProgress(file) ==
    IF file.state = "written" THEN file.processed_indices ELSE {}

Running == { i \in DOMAIN future : future[i] = "running" }

Queued == { i \in DOMAIN future : future[i] = "queued" }

Finished == { i \in DOMAIN future : future[i] = "finished" }

Submitted == { i \in DOMAIN future : future[i] # "none" }

\* a variant that yields a finished future again
CompletedAgain == Finished

\* line 388: as_completed yields each finished future once
Completed == Finished \ yielded

(***************************************************************************)
(* Spec: a run of enrich_data.  The main thread submits one future per     *)
(* entry to process and handles the completions one by one; the workers of *)
(* the pool run _enrich_entry.  The process may be killed at any point and *)
(* started again on the files it left.                                     *)
(***************************************************************************)
SearchHit ==
    [kind |-> "results",
     results |-> <<SearchResult("https://www.youtube.com/watch", "F28 fix",
                                <<"r", "e", "s", "e", "t">>)>>]

\* the services answer an entry well, or the generation call fails
EnvDone ==
    [has_key |-> TRUE, context |-> <<SearchHit>>,
     generation |-> <<Text(<<JsonFull>>)>>, resources |-> <<SearchHit>>]

EnvFailed ==
    [has_key |-> TRUE, context |-> <<SearchHit>>,
     generation |-> <<ConnectionError>>, resources |-> <<SearchHit>>]

PipelineEnvs == {EnvDone, EnvFailed}

InputDocuments == UNION { [1..n -> RawRecords] : n \in 0..MaxRecords }

NoIndex == 0 - 1

\* the memory of a process that is not running
NoProcess ==
    /\ loaded = {}
    /\ processed_indices = {}
    /\ boiler_faults = <<>>
    /\ enriched_faults = <<>>
    /\ future = <<>>
    /\ result = <<>>
    /\ slot_writes = <<>>
    /\ yielded = {}
    /\ index = NoIndex
    /\ completed_count = 0
    /\ invoked = <<>>
    /\ flushes = 0

EntryIdle == e_entry = None /\ e_env = None /\ e_out = None

FlushIdle ==
    /\ f_slots = <<>> /\ f_test_mode = FALSE /\ f_clock = 0 /\ f_written = <<>>

DescIdle == d_snippet = <<>> /\ d_description = None

LimiterIdle ==
    /\ tokens = 0 /\ last_refill = 0 /\ now = 0 /\ lock = 0
    /\ caller = <<>> /\ wake_at = <<>> /\ returned = <<>>

Init ==
    /\ input \in InputDocuments
    /\ envOf \in [1..Len(input) -> PipelineEnvs]
    /\ test_mode \in BOOLEAN
    /\ batch_size \in 1..MaxBatchSize
    /\ run = 0
    /\ pc = "idle"
    /\ NoProcess
    /\ progress_file = Absent
    /\ output_file = Absent
    /\ resumed_after_flush = FALSE
    /\ write_failed = FALSE
    /\ EntryIdle
    /\ LimiterIdle
    /\ FlushIdle
    /\ DescIdle

Live == {"loop", "save_progress", "save_progress_write", "flush", "flush_write",
         "final", "final_write", "cleanup"}

\* __init__ (lines 90-93) and enrich_data up to the submission of the futures
\* (lines 346-385).  json.load raises on a truncated progress file; an empty
\* input returns at line 356.
Start ==
    /\ pc \in {"idle", "killed"}
    /\ run < MaxRuns
    /\ run' = run + 1
    /\ UNCHANGED <<config, progress_file, output_file,
                   resumed_after_flush, write_failed, entryVars, rlVars, flushVars, descVars>>
    /\ IF progress_file.state = "truncated"
       THEN /\ pc' = "crashed"
            /\ UNCHANGED <<loaded, processed_indices, boiler_faults,
                           enriched_faults, future, result, slot_writes, yielded, index,
                           completed_count, invoked, flushes>>
       ELSE LET progress == LoadProgress(progress_file)
                faults == Slice(input, test_mode)
                todo == EntriesToProcess(faults, progress)
            IN /\ loaded' = progress
               /\ processed_indices' = progress
               /\ UNCHANGED <<yielded, index, completed_count, flushes>>
               /\ IF input = <<>>
                  THEN /\ pc' = "done"
                       /\ UNCHANGED <<boiler_faults, enriched_faults, future,
                                      result, slot_writes, invoked>>
                  ELSE /\ pc' = "loop"
                       /\ boiler_faults' = faults
                       /\ enriched_faults' = Prefill(faults, progress)
                       /\ future' = [i \in Indices(faults) |->
                                        IF i \in todo THEN "queued" ELSE "none"]
                       /\ result' = [i \in Indices(faults) |-> None]
                       /\ slot_writes' = [i \in Indices(faults) |-> 0]
                       /\ invoked' = [i \in Indices(faults) |-> 0]

\* a worker of the pool takes the next queued future and calls _enrich_entry
WorkerStart(i) ==
    /\ pc \in Live
    /\ i \in Queued
    /\ \A j \in Queued : i <= j
    /\ Cardinality(Running) < MaxWorkers
    /\ future' = [future EXCEPT ![i] = "running"]
    /\ invoked' = [invoked EXCEPT ![i] = @ + 1]
    /\ UNCHANGED <<config, run, pc, loaded, processed_indices,
                   boiler_faults, enriched_faults, result, slot_writes, yielded, index,
                   completed_count, progress_file, output_file, flushes,
                   resumed_after_flush, write_failed, entryVars, rlVars, flushVars, descVars>>

\* _enrich_entry returns
WorkerFinish(i) ==
    /\ pc \in Live
    /\ i \in Running
    /\ future' = [future EXCEPT ![i] = "finished"]
    /\ LET record == EnrichEntry(boiler_faults[i + 1], envOf[i + 1], run).result
       IN /\ result' = [result EXCEPT ![i] = record]
          /\ boiler_faults' = [boiler_faults EXCEPT
                                  ![i + 1] = EntryAfter(@, record)]
    /\ UNCHANGED <<config, run, pc, loaded, processed_indices,
                   enriched_faults, slot_writes, yielded, index,
                   completed_count, progress_file, output_file, invoked, flushes,
                   resumed_after_flush, write_failed, entryVars, rlVars, flushVars, descVars>>

\* lines 388-392: as_completed yields a finished future; its result fills the slot
TakeResult(i) ==
    /\ pc = "loop"
    /\ i \in Completed
    /\ yielded' = yielded \cup {i}
    /\ index' = i
    /\ enriched_faults' = [enriched_faults EXCEPT ![i] = result[i]]
    /\ slot_writes' = [slot_writes EXCEPT ![i] = @ + 1]
    /\ pc' = "save_progress"
    /\ UNCHANGED <<config, run, loaded, processed_indices,
                   boiler_faults, future, result, completed_count,
                   progress_file, output_file, invoked, flushes,
                   resumed_after_flush, write_failed, entryVars, rlVars, flushVars, descVars>>

\* _save_progress, lines 105-107: the index joins the set, the file is opened
SaveProgressOpen ==
    /\ pc = "save_progress"
    /\ processed_indices' = AddProcessed(processed_indices, index)
    /\ progress_file' = Truncated
    /\ pc' = "save_progress_write"
    /\ UNCHANGED <<config, run, loaded, boiler_faults,
                   enriched_faults, future, result, slot_writes, yielded, index,
                   completed_count, output_file, invoked, flushes,
                   resumed_after_flush, write_failed, entryVars, rlVars, flushVars, descVars>>

\* _save_progress, line 108, and lines 397-400: the set is written, the
\* completion is counted, and every batch_size-th completion goes on to flush
SaveProgressWrite ==
    /\ pc = "save_progress_write"
    /\ progress_file' = ProgressDocument(processed_indices)
    /\ completed_count' = completed_count + 1
    /\ pc' = IF BatchComplete(completed_count + 1) THEN "flush" ELSE "loop"
    /\ index' = NoIndex
    /\ UNCHANGED <<config, run, loaded, processed_indices,
                   boiler_faults, enriched_faults, future, result, slot_writes, yielded,
                   output_file, invoked, flushes, resumed_after_flush, write_failed,
                   entryVars, rlVars, flushVars, descVars>>

\* _save_output, line 431: the output file is opened
SaveOutputOpen ==
    /\ pc \in {"flush", "final"}
    /\ output_file' = Truncated
    /\ pc' = IF pc = "flush" THEN "flush_write" ELSE "final_write"
    /\ UNCHANGED <<config, run, loaded, processed_indices,
                   boiler_faults, enriched_faults, future, result, slot_writes, yielded,
                   index, completed_count, progress_file, invoked, flushes,
                   resumed_after_flush, write_failed, entryVars, rlVars, flushVars, descVars>>

\* _save_output, line 432: the document of the non-empty slots is written
SaveOutputWrite ==
    /\ pc \in {"flush_write", "final_write"}
    /\ output_file' = OutputDocument(NonEmpty(enriched_faults), test_mode, run)
    /\ flushes' = flushes + 1
    /\ pc' = IF pc = "flush_write" THEN "loop" ELSE "cleanup"
    /\ UNCHANGED <<config, run, loaded, processed_indices,
                   boiler_faults, enriched_faults, future, result, slot_writes, yielded,
                   index, completed_count, progress_file, invoked,
                   resumed_after_flush, write_failed, entryVars, rlVars, flushVars, descVars>>

\* as_completed is exhausted and the pool shut down: on to the final save
LoopExit ==
    /\ pc = "loop"
    /\ yielded = Submitted
    /\ pc' = "final"
    /\ UNCHANGED <<config, run, loaded, processed_indices,
                   boiler_faults, enriched_faults, future, result, slot_writes, yielded,
                   index, completed_count, progress_file, output_file, invoked,
                   flushes, resumed_after_flush, write_failed, entryVars, rlVars, flushVars, descVars>>

\* lines 414-415: the progress file is removed
Cleanup ==
    /\ pc = "cleanup"
    /\ progress_file' = Absent
    /\ pc' = "done"
    /\ UNCHANGED <<config, run, loaded, processed_indices,
                   boiler_faults, enriched_faults, future, result, slot_writes, yielded,
                   index, completed_count, output_file, invoked, flushes,
                   resumed_after_flush, write_failed, entryVars, rlVars, flushVars, descVars>>

\* the process is killed: its memory is lost, the files stay as they are
Kill ==
    /\ pc \in Live
    /\ pc' = "killed"
    /\ loaded' = {}
    /\ processed_indices' = {}
    /\ boiler_faults' = <<>>
    /\ enriched_faults' = <<>>
    /\ future' = <<>>
    /\ result' = <<>>
    /\ slot_writes' = <<>>
    /\ yielded' = {}
    /\ index' = NoIndex
    /\ completed_count' = 0
    /\ invoked' = <<>>
    /\ flushes' = 0
    /\ resumed_after_flush' = (resumed_after_flush \/ flushes > 0)
    /\ write_failed' = FALSE
    /\ UNCHANGED <<config, run, progress_file, output_file,
                   entryVars, rlVars, flushVars, descVars>>

\* the steps of the threads of a running process
NextRun ==
    \/ \E i \in DOMAIN future : WorkerStart(i)
    \/ \E i \in DOMAIN future : WorkerFinish(i)
    \/ \E i \in DOMAIN future : TakeResult(i)
    \/ SaveProgressOpen
    \/ SaveProgressWrite
    \/ SaveOutputOpen
    \/ SaveOutputWrite
    \/ LoopExit
    \/ Cleanup

Next ==
    \/ Start
    \/ NextRun
    \/ Kill

Spec == Init /\ [][Next]_vars

\* the steps of the pool and of the main thread that wait for nothing
Scheduled ==
    \/ \E i \in DOMAIN future : WorkerStart(i)
    \/ \E i \in DOMAIN future : TakeResult(i)
    \/ SaveProgressOpen
    \/ SaveProgressWrite
    \/ SaveOutputOpen
    \/ SaveOutputWrite
    \/ LoopExit
    \/ Cleanup

\* a call of _enrich_entry that is running returns (a step of WorkerFinish)
Returns ==
    \E i \in Running : pc \in Live /\ future' = [future EXCEPT ![i] = "finished"]

\* the threads of a running process keep being scheduled, and every external
\* call and every sleep of a worker returns
SpecFair == Spec /\ WF_vars(Scheduled) /\ WF_future(Returns)

(***************************************************************************)
(* Properties of a run (Spec).                                             *)
(***************************************************************************)
\* a record without the time of its enrichment
StripTime(record) ==
    IF Has(record, "enrichment_metadata")
    THEN Put(record, "enrichment_metadata",
             Put(record.enrichment_metadata, "enriched_at", 0))
    ELSE record

\* the record a run that is never interrupted leaves for index i
Uninterrupted(i) ==
    EnrichEntry(Slice(input, test_mode)[i + 1], envOf[i + 1], 1).result

FilledSlots == { i \in DOMAIN enriched_faults : enriched_faults[i] # None }

\* C1: a run that was killed after a flush and started again ends with the
\* output of an uninterrupted run: by index, the same records (the records
\* compared without their timestamps).
ResumeEquivalence ==
    (pc = "done" /\ resumed_after_flush) =>
        /\ output_file.state = "written"
        /\ Len(output_file.boiler_faults) = Len(Slice(input, test_mode))
        /\ \A i \in Indices(Slice(input, test_mode)) :
              StripTime(output_file.boiler_faults[i + 1]) = StripTime(Uninterrupted(i))

\* C2: _enrich_entry is never invoked for an index that _load_progress returned
\* at startup; the futures submitted are those of the other indices.
NoRedoneWork ==
    pc \in Live \cup {"done"} =>
        /\ \A i \in DOMAIN invoked : i \in loaded => invoked[i] = 0
        /\ Submitted = { i \in Indices(boiler_faults) : i \notin loaded }

\* C2 witness: a resumed process that loaded a checkpoint and ran _enrich_entry
\* for an index that was not in it.
ResumedWorkWitness ==
    /\ run = 2
    /\ loaded # {}
    /\ \E i \in DOMAIN invoked : invoked[i] > 0 /\ i \in yielded

\* C3: every index listed in the progress file has its processed record in
\* the output file on disk.
CrashConsistency ==
    progress_file.state = "written" =>
        \A i \in progress_file.processed_indices :
            /\ output_file.state = "written"
            /\ \E k \in 1..Len(output_file.boiler_faults) :
                  StripTime(output_file.boiler_faults[k]) = StripTime(Uninterrupted(i))

\* C4: the entries the run indexes hold one entry per identity key, no more
\* entries than the input, and of each key the first entry of the input.
Deduplicated ==
    pc \in Live =>
        /\ Len(boiler_faults) <= Len(input)
        /\ \A j, k \in 1..Len(boiler_faults) :
              j # k => IdentityKey(boiler_faults[j]) # IdentityKey(boiler_faults[k])
        /\ \A k \in 1..Len(boiler_faults) :
              \E p \in 1..Len(input) :
                  /\ input[p] = boiler_faults[k]
                  /\ \A q \in 1..(p - 1) :
                        IdentityKey(input[q]) # IdentityKey(boiler_faults[k])

\* C9: an index whose completion has been handled is in the progress file,
\* whether its record is Done or Failed, and a Failed index of the loaded
\* checkpoint is not attempted again.
BothOutcomesCheckpointed ==
    /\ (pc \in Live /\ progress_file.state = "written") =>
           \A i \in yielded \ {index} : i \in progress_file.processed_indices
    /\ \A i \in DOMAIN invoked :
           (i \in loaded /\ ~Success(Uninterrupted(i))) => invoked[i] = 0

\* C9 witness: a resumed process whose checkpoint held a Failed index, and
\* which has checkpointed a Failed record of its own.
FailedCheckpointedWitness ==
    /\ run = 2
    /\ pc \in Live
    /\ \E i \in loaded : ~Success(Uninterrupted(i))
    /\ progress_file.state = "written"
    /\ \E j \in yielded \ {index} :
           /\ ~Success(enriched_faults[j])
           /\ j \in progress_file.processed_indices

\* C10: while a run is under way the persisted set contains every index whose
\* slot is filled, and is the set of the indices attempted to completion (those
\* of the loaded checkpoint and those whose completion the run has received).
ProgressStoreInvariant ==
    pc \in Live =>
        /\ FilledSlots \subseteq LoadProgress(progress_file)
        /\ LoadProgress(progress_file) = loaded \cup yielded

\* C11: within one run every index that was not in the loaded checkpoint is
\* submitted and _enrich_entry is invoked for it once and by one worker, a
\* slot receives at most one result, and the pre-filled slot of a checkpointed
\* index receives none and keeps the input entry.
ExclusiveDispatch ==
    pc \in Live \cup {"done"} =>
        \A i \in DOMAIN slot_writes :
            /\ invoked[i] <= 1
            /\ slot_writes[i] <= invoked[i]
            /\ i \notin loaded => future[i] # "none"
            /\ i \in loaded =>
                  /\ future[i] = "none"
                  /\ slot_writes[i] = 0
                  /\ enriched_faults[i] = boiler_faults[i + 1]
            /\ (pc = "done" /\ i \notin loaded) =>
                  invoked[i] = 1 /\ slot_writes[i] = 1

\* C11 witness: a resumed run has ended; one slot was pre-filled from the
\* checkpoint and another was written with the result of its worker.
ExclusiveDispatchWitness ==
    /\ pc = "done"
    /\ \E i \in DOMAIN slot_writes : i \in loaded
    /\ \E i \in DOMAIN slot_writes : i \notin loaded /\ slot_writes[i] = 1

\* the flushes owed while completions are handled: one per batch_size
\* completions, the one of the batch just completed still to come in "flush"
PeriodicFlushes ==
    /\ pc \in {"loop", "save_progress", "save_progress_write", "final", "final_write"} =>
           flushes = completed_count \div batch_size
    /\ pc \in {"flush", "flush_write"} =>
           /\ completed_count > 0
           /\ completed_count % batch_size = 0
           /\ flushes = (completed_count \div batch_size) - 1

\* C12: _save_output is invoked after every batch_size-th completion and once
\* more at the end of every run, a run with nothing to process included.
FlushCadenceEveryRun ==
    /\ PeriodicFlushes
    /\ pc \in {"cleanup", "done"} =>
           flushes = (completed_count \div batch_size) + 1

\* the k-th of the indices whose slot is filled
KthFilled(k) ==
    CHOOSE i \in FilledSlots : Cardinality({ j \in FilledSlots : j < i }) = k - 1

\* C13: a document that _save_output writes holds the records of the slots
\* that are filled when it is written, each once and in the order of the
\* indices, and its metadata.total_entries is the number of these records.
ConsistentFlushSnapshot ==
    [][(output_file' # output_file /\ output_file'.state = "written") =>
          /\ Len(output_file'.boiler_faults) = Cardinality(FilledSlots)
          /\ \A k \in 1..Len(output_file'.boiler_faults) :
                output_file'.boiler_faults[k] = enriched_faults[KthFilled(k)]
          /\ "total_entries" \in DOMAIN output_file'.metadata
          /\ output_file'.metadata.total_entries = Len(output_file'.boiler_faults)
      ]_vars

\* C13 witness: the completion of index 1 came first and was flushed while
\* the slot of index 0 was still empty: the document holds one record.
PartialFlushWitness ==
    /\ pc = "loop"
    /\ flushes = 1
    /\ DOMAIN enriched_faults = {0, 1}
    /\ enriched_faults[0] = None
    /\ enriched_faults[1] # None
    /\ output_file.state = "written"
    /\ output_file.boiler_faults = <<enriched_faults[1]>>
    /\ output_file.metadata.total_entries = 1

\* C14: the output file on disk is never half-written: it is a complete
\* document (or not there yet) at every instant, during a flush included.
NoHalfWrittenOutput == output_file.state # "truncated"

\* C17: whatever records succeed or fail, a run whose threads keep running
\* ends (unless the process is killed), and at its end every slot of an index
\* outside the loaded checkpoint holds a Done or Failed record, no future is
\* queued or running, and the final flush has written every record.
RunTerminates ==
    /\ (pc \in Live) ~> (pc \in {"done", "killed"})
    /\ []((pc = "done" /\ input # <<>>) =>
            /\ \A i \in DOMAIN enriched_faults :
                  /\ enriched_faults[i] # None
                  /\ i \notin loaded =>
                        /\ future[i] = "finished"
                        /\ Has(enriched_faults[i], "enrichment_metadata")
            /\ Running = {} /\ Queued = {}
            /\ flushes >= 1
            /\ output_file.state = "written"
            /\ Len(output_file.boiler_faults) = Len(boiler_faults))

\* C17 witness: a run has ended with one Done and one Failed record, both
\* processed in this run.
MixedOutcomesWitness ==
    /\ pc = "done"
    /\ loaded = {}
    /\ \E i \in DOMAIN enriched_faults : Success(enriched_faults[i])
    /\ \E i \in DOMAIN enriched_faults :
          /\ Has(enriched_faults[i], "enrichment_metadata")
          /\ ~Success(enriched_faults[i])

\* C22: the record in a slot has the maker, model and error_code of the input
\* entry of its index, whether it is a Done or a Failed record, and the
\* entries the run indexes stay the entries of the input, in number, order and
\* content: _enrich_entry works on a copy.
IdentityPreserved ==
    pc \in Live \cup {"done"} =>
        /\ boiler_faults = Slice(input, test_mode)
        /\ \A i \in DOMAIN result :
              result[i] # None =>
                  IdentityKey(result[i]) = IdentityKey(input[i + 1])
        /\ \A i \in FilledSlots :
              IdentityKey(enriched_faults[i]) = IdentityKey(input[i + 1])

\* C22 witness: a run has ended with a Done record and a Failed record in
\* its slots, each with the identity of its input entry.
IdentityWitness ==
    /\ pc = "done"
    /\ \E i, j \in DOMAIN slot_writes :
          /\ slot_writes[i] = 1 /\ Success(enriched_faults[i])
          /\ slot_writes[j] = 1 /\ ~Success(enriched_faults[j])
          /\ IdentityKey(enriched_faults[i]) = IdentityKey(input[i + 1])
          /\ IdentityKey(enriched_faults[j]) = IdentityKey(input[j + 1])
          /\ IdentityKey(input[i + 1]) # IdentityKey(input[j + 1])

(***************************************************************************)
(* SpecIO: a run of enrich_data on a storage whose writes may fail.  An    *)
(* exception raised in the body of the completion loop is caught by the    *)
(* except clause at lines 403-404, which prints it; the loop goes on.  The *)
(* final _save_output (line 410) is outside any try.                       *)
(***************************************************************************)
\* _save_progress raises, at open (line 107) or at json.dump (line 108): the
\* index has joined the set (line 106), the completion is not counted
SaveProgressFail ==
    /\ pc \in {"save_progress", "save_progress_write"}
    /\ processed_indices' = IF pc = "save_progress"
                            THEN AddProcessed(processed_indices, index)
                            ELSE processed_indices
    /\ write_failed' = TRUE
    /\ index' = NoIndex
    /\ pc' = "loop"
    /\ UNCHANGED <<config, run, loaded, boiler_faults, enriched_faults, future,
                   result, slot_writes, yielded, completed_count,
                   progress_file, output_file, invoked, flushes,
                   resumed_after_flush, entryVars, rlVars, flushVars, descVars>>

\* _save_output raises, at open (line 431) or at json.dump (line 432): the
\* periodic one (line 401) inside the try of the loop, the final one (line
\* 410) out of enrich_data
SaveOutputFail ==
    /\ pc \in {"flush", "flush_write", "final", "final_write"}
    /\ write_failed' = TRUE
    /\ pc' = IF pc \in {"flush", "flush_write"} THEN "loop" ELSE "aborted"
    /\ UNCHANGED <<config, run, loaded, processed_indices, boiler_faults,
                   enriched_faults, future, result, slot_writes, yielded,
                   index, completed_count, progress_file, output_file,
                   invoked, flushes, resumed_after_flush, entryVars, rlVars, flushVars, descVars>>

NextIO ==
    \/ Next
    \/ SaveProgressFail
    \/ SaveOutputFail

SpecIO == Init /\ [][NextIO]_vars

\* C15: the progress file is removed only at the end of a run in which no
\* write of the progress file or of the output file failed, every slot is
\* filled, every index is in the progress file on disk and the final flush
\* has written every record.
CheckpointDeletedAfterSuccess ==
    [][(pc = "cleanup" /\ pc' = "done") =>
          /\ ~write_failed
          /\ FilledSlots = DOMAIN enriched_faults
          /\ LoadProgress(progress_file) = DOMAIN enriched_faults
          /\ output_file.state = "written"
          /\ Len(output_file.boiler_faults) = Cardinality(DOMAIN enriched_faults)
      ]_vars

\* C16: once a write of the progress file or of the output file has failed,
\* the run has left enrich_data: no further completion is handled, nothing is
\* flushed and the checkpoint is not removed; the progress file on disk can
\* still be loaded.
WriteFailureAborts ==
    write_failed => (pc = "aborted" /\ progress_file.state # "truncated")

(***************************************************************************)
(* SpecEntry: _enrich_entry applied to one entry, for every answer of the  *)
(* external services.                                                      *)
(***************************************************************************)
PipelineIdle ==
    /\ input = <<>> /\ envOf = <<>> /\ test_mode = FALSE /\ batch_size = 1
    /\ run = 0 /\ pc = "idle"
    /\ NoProcess
    /\ progress_file = Absent /\ output_file = Absent
    /\ resumed_after_flush = FALSE /\ write_failed = FALSE

InitEntry ==
    /\ e_entry \in RawRecords
    /\ e_env \in Envs
    /\ e_out = None
    /\ PipelineIdle
    /\ LimiterIdle
    /\ FlushIdle
    /\ DescIdle

ApplyEnrichEntry ==
    /\ e_out = None
    /\ e_out' = EnrichEntry(e_entry, e_env, 1)
    /\ e_entry' = EntryAfter(e_entry, EnrichEntry(e_entry, e_env, 1).result)
    /\ UNCHANGED <<e_env, pipeVars, rlVars, flushVars, descVars>>

NextEntry == ApplyEnrichEntry

SpecEntry == InitEntry /\ [][NextEntry]_vars

\* the number of rate-limited answers a script starts with
RECURSIVE LeadingRateLimited(_)
LeadingRateLimited(script) ==
    IF script # <<>> /\ Head(script) = RateLimited
    THEN 1 + LeadingRateLimited(Tail(script))
    ELSE 0

\* an answer of the generation service that is a success
GenerationSucceeds(response) ==
    /\ response.kind = "text"
    /\ ~ParseOverview(response.lines).raised
    /\ IsDict(ParseOverview(response.lines).value)

NonDecreasing(seq) == \A k \in 1..(Len(seq) - 1) : seq[k] <= seq[k + 1]

\* C7: a generation call that is rate-limited r < maxRetries times and then
\* succeeds returns the success after r backoff sleeps of non-decreasing
\* delay; one that is rate-limited maxRetries + 1 times ends in that failure;
\* any other failure is surfaced at once, with no retry; and a context search
\* that is answered 429 once and then with results returns those results.
RetryPolicy ==
    e_out # None =>
        LET script == e_env.generation
            r == LeadingRateLimited(script)
        IN /\ (/\ e_env.has_key
               /\ 1 < MaxRetries
               /\ Len(e_env.context) = 2
               /\ e_env.context[1] = TooManyRequests) =>
                  e_out.context = ContextParts(e_env.context[2].results)
           /\ (r < MaxRetries /\ r < Len(script) /\ GenerationSucceeds(script[r + 1])) =>
                  /\ Success(e_out.result)
                  /\ Len(e_out.sleeps) = r
                  /\ NonDecreasing(e_out.sleeps)
           /\ r = MaxRetries + 1 =>
                  /\ ~Success(e_out.result)
                  /\ e_out.result.enrichment_metadata.error = RateLimited.error
           /\ script[1] = ConnectionError =>
                  /\ ~Success(e_out.result)
                  /\ e_out.attempts = 1
                  /\ e_out.sleeps = <<>>

\* C8: a record with success = false keeps the troubleshooting and the
\* possible_cause of the input entry, has no ai_overview and no
\* helpful_resources, and carries the description of the failure; a generation
\* call that raises, returns an empty text or returns what does not parse gives
\* such a record; a record with success = true has ai_overview and
\* helpful_resources.
FailedPreservesOriginal ==
    e_out # None =>
        LET record == e_out.result
            answer == e_env.generation[1]
        IN /\ ~Success(record) =>
                  /\ record.troubleshooting = e_entry.troubleshooting
                  /\ record.possible_cause = e_entry.possible_cause
                  /\ ~Has(record, "ai_overview")
                  /\ ~Has(record, "helpful_resources")
                  /\ Has(record.enrichment_metadata, "error")
                  /\ answer.kind = "raise" =>
                         record.enrichment_metadata.error = answer.error
                  /\ (answer.kind = "text" /\ Strip(answer.lines) = <<>>) =>
                         record.enrichment_metadata.error
                             = "Empty response from API for overview"
           /\ ~GenerationSucceeds(answer) => ~Success(record)
           /\ Success(record) =>
                  /\ Has(record, "ai_overview")
                  /\ Has(record, "helpful_resources")

\* C8 witness: the generation service returned a text that does not parse, and
\* the record returned is a failed one.
UnparseableWitness ==
    /\ e_out # None
    /\ e_env.generation[1] = Text(<<"I cannot help">>)
    /\ ~Success(e_out.result)
    /\ e_entry.troubleshooting = "y"

\* a search that gives nothing: no key, or the request or its answer raises
ContextFailed == ~e_env.has_key \/ e_env.context[1].kind = "raise"

ResourcesFailed == ~e_env.has_key \/ e_env.resources[1].kind = "raise"

\* C18: whatever the context lookup and the resource search do (no key, an
\* HTTP error, a body that does not parse, no results), the context is a
\* text, empty when the lookup failed, the resources are a list, empty when
\* the search failed, and the record is a success exactly when the generation
\* step succeeded.
BestEffortSteps ==
    e_out # None =>
        LET record == e_out.result
        IN /\ Success(record) <=> GenerationSucceeds(e_env.generation[1])
           /\ DOMAIN e_out.context = 1..Len(e_out.context)
           /\ ContextFailed => e_out.context = <<>>
           /\ Success(record) =>
                 /\ DOMAIN record.helpful_resources
                        = 1..Len(record.helpful_resources)
                 /\ ResourcesFailed => record.helpful_resources = <<>>

\* C18 witness: the context lookup was answered 429 and the resource search
\* with a body that does not parse, and the record is a success with no
\* resources.
FailedSearchesWitness ==
    /\ e_out # None
    /\ e_env.has_key
    /\ e_env.context[1] = TooManyRequests
    /\ e_env.resources[1] = MalformedBody
    /\ Success(e_out.result)
    /\ e_out.result.helpful_resources = <<>>

\* the place of an external call in the order of the calls of a record
CallRank(call) ==
    IF call = "context" THEN 1 ELSE IF call = "generation" THEN 2 ELSE 3

\* C20: the external calls of a record are made in the order context lookup,
\* generation, resource search, and each call made comes right after an
\* acquire() of its own on the limiter.
EveryCallThrottled ==
    e_out # None =>
        LET calls == e_out.calls
        IN /\ \A j, k \in 1..Len(calls) :
                 (j < k /\ calls[j] # "acquire" /\ calls[k] # "acquire") =>
                     CallRank(calls[j]) <= CallRank(calls[k])
           /\ \A k \in 1..Len(calls) :
                 calls[k] # "acquire" => (k > 1 /\ calls[k - 1] = "acquire")

(***************************************************************************)
(* SpecRL: the RateLimiter built at line 88 and its concurrent callers.    *)
(* tokens is held in units of 1/Resolution token and time in ticks of      *)
(* 1/(refill_rate * Resolution) second, so that one tick refills one unit. *)
(* time.time() is taken to be non-decreasing; time.sleep(t) returns after  *)
(* t or later.  The sleep of acquire is inside "with self.lock".           *)
(***************************************************************************)
\* RateLimiter(max_tokens=3.0, refill_rate=3.0)
MaxTokens == 3
RefillRate == 3

TicksPerSecond == RefillRate * Resolution

\* one token and the capacity, in units
OneToken == Resolution

Capacity == MaxTokens * Resolution

\* a variant without the cap
RefillUncapped(tok, elapsed) ==
    tok + (elapsed * RefillRate * Resolution) \div TicksPerSecond

\* line 36: min(max_tokens, tokens + elapsed * refill_rate)
Refill(tok, elapsed) ==
    Min(Capacity, tok + (elapsed * RefillRate * Resolution) \div TicksPerSecond)

\* a variant that does not wait
WaitTimeNone(tok) == 0

\* line 44: (1.0 - tokens) / refill_rate, in ticks
WaitTime(tok) == ((OneToken - tok) * TicksPerSecond) \div (RefillRate * Resolution)

Callers == 1..NumCallers

Sleeping == { c \in Callers : caller[c] = "sleeping" }

InitRL ==
    /\ tokens = Capacity
    /\ last_refill = 0
    /\ now = 0
    /\ lock = 0
    /\ caller = [c \in Callers |-> "idle"]
    /\ wake_at = [c \in Callers |-> 0]
    /\ returned = <<>>
    /\ PipelineIdle
    /\ EntryIdle
    /\ FlushIdle
    /\ DescIdle

\* the clock advances
Tick ==
    /\ now < MaxTime
    /\ now' = now + 1
    /\ UNCHANGED <<tokens, last_refill, lock, caller, wake_at, returned,
                   pipeVars, entryVars, flushVars, descVars>>

\* lines 31-45: a caller takes the lock, refills, and either consumes a token
\* and returns or goes to sleep for the missing fraction, holding the lock
AcquireEnter(c) ==
    /\ caller[c] = "idle"
    /\ lock = 0
    /\ Len(returned) + Cardinality(Sleeping) < MaxAcquires
    /\ LET refilled == Refill(tokens, now - last_refill)
       IN /\ last_refill' = now
          /\ IF refilled >= OneToken
             THEN /\ tokens' = refilled - OneToken
                  /\ returned' = Append(returned, [at |-> now, slept |-> FALSE])
                  /\ UNCHANGED <<lock, caller, wake_at>>
             ELSE /\ tokens' = refilled
                  /\ lock' = c
                  /\ caller' = [caller EXCEPT ![c] = "sleeping"]
                  /\ wake_at' = [wake_at EXCEPT ![c] = now + WaitTime(refilled)]
                  /\ UNCHANGED returned
    /\ UNCHANGED <<now, pipeVars, entryVars, flushVars, descVars>>

\* lines 45-50: the sleep is over; the bucket is emptied, the lock released
AcquireWake(c) ==
    /\ caller[c] = "sleeping"
    /\ now >= wake_at[c]
    /\ tokens' = 0
    /\ last_refill' = now
    /\ lock' = 0
    /\ caller' = [caller EXCEPT ![c] = "idle"]
    /\ returned' = Append(returned, [at |-> now, slept |-> TRUE])
    /\ UNCHANGED <<now, wake_at, pipeVars, entryVars, flushVars, descVars>>

NextRL ==
    \/ Tick
    \/ \E c \in Callers : AcquireEnter(c)
    \/ \E c \in Callers : AcquireWake(c)

SpecRL == InitRL /\ [][NextRL]_vars

\* C5: in every interval of length T at most max_tokens + refill_rate * T
\* acquire calls return; from the cold start the first max_tokens return
\* without sleeping and the next one not before 1/refill_rate second.
RateCeiling ==
    /\ \A j, k \in 1..Len(returned) :
           j <= k =>
              (k - j + 1) * OneToken
                  <= Capacity + ((returned[k].at - returned[j].at)
                                     * RefillRate * Resolution) \div TicksPerSecond
    /\ \A k \in 1..Len(returned) : k <= MaxTokens => ~returned[k].slept
    /\ Len(returned) > MaxTokens =>
           returned[MaxTokens + 1].at * RefillRate >= TicksPerSecond

\* C5 witness: the call after the burst slept and returned 1/refill_rate
\* second after the start.
FourthAcquireWitness ==
    /\ Len(returned) > MaxTokens
    /\ returned[MaxTokens + 1].slept
    /\ returned[MaxTokens + 1].at * RefillRate = TicksPerSecond

\* C6: tokens stays within 0 and max_tokens; it decreases only when acquire
\* consumes, by one token when at least one is there after the refill and to
\* 0 after the sleep; last_refill never moves backwards.
TokenBucketBounds ==
    /\ [](0 <= tokens /\ tokens <= Capacity)
    /\ [][/\ last_refill' >= last_refill
          /\ tokens' < tokens =>
                \/ /\ Len(returned') = Len(returned) + 1
                   /\ ~returned'[Len(returned')].slept
                   /\ Refill(tokens, now - last_refill) >= OneToken
                   /\ tokens' = Refill(tokens, now - last_refill) - OneToken
                \/ /\ Len(returned') = Len(returned) + 1
                   /\ returned'[Len(returned')].slept
                   /\ tokens' = 0]_vars

\* C6 witness: after an idle time that refills the bucket to its cap, a call
\* consumed one token of the full bucket.
FullBucketWitness ==
    /\ Len(returned) > MaxTokens
    /\ returned[MaxTokens + 1].at > returned[MaxTokens].at + Capacity
    /\ tokens = Capacity - OneToken
    /\ last_refill = now

\* C19: while a caller of acquire sleeps for its deficit the lock is free, so
\* that another caller can enter acquire and do its own refill accounting.
SleepOutsideLock == Sleeping # {} => lock = 0

(***************************************************************************)
(* SpecFlush: _save_output called several times on slots that do not       *)
(* change, with the same test_mode, while the clock runs.                  *)
(***************************************************************************)
FlushSlots ==
    UNION { [0..(n - 1) -> RawRecords \cup {None}] : n \in 0..MaxRecords }

InitFlush ==
    /\ f_slots \in FlushSlots
    /\ f_test_mode \in BOOLEAN
    /\ f_clock = 0
    /\ f_written = <<>>
    /\ PipelineIdle
    /\ EntryIdle
    /\ LimiterIdle
    /\ DescIdle

\* time passes between two calls
FlushTick ==
    /\ f_clock < MaxClock
    /\ f_clock' = f_clock + 1
    /\ UNCHANGED <<f_slots, f_test_mode, f_written, pipeVars, entryVars,
                   rlVars, descVars>>

\* _save_output, lines 420-432: the document carries utcnow()
SaveOutput ==
    /\ Len(f_written) < MaxFlushes
    /\ f_written' = Append(f_written,
                           OutputDocument(NonEmpty(f_slots), f_test_mode, f_clock))
    /\ UNCHANGED <<f_slots, f_test_mode, f_clock, pipeVars, entryVars,
                   rlVars, descVars>>

NextFlush == FlushTick \/ SaveOutput

SpecFlush == InitFlush /\ [][NextFlush]_vars

\* C21: two calls of _save_output with the same slots and the same test_mode
\* write the same document, records and metadata, whenever they are made.
FlushIdempotent ==
    \A j, k \in 1..Len(f_written) : f_written[j] = f_written[k]

(***************************************************************************)
(* SpecDesc: the description _search_perplexity makes of one snippet.  The *)
(* snippets are a first word, a gap of whitespace, a second word, a space  *)
(* and a last word, of lengths on both sides of the limit.                 *)
(***************************************************************************)
Letters(n) == [k \in 1..n |-> "a"]

FirstWordLengths == {0, 1, 100, 146, 147, 148, 149, 150, 151}

Gaps == {<<" ">>, <<" ", " ">>, <<"\n">>}

SecondWordLengths == {0, 1, 3, 60}

Snippets ==
    { Letters(a) \o g \o Letters(b) \o <<" ">> \o Letters(2) :
        a \in FirstWordLengths, g \in Gaps, b \in SecondWordLengths }

InitDesc ==
    /\ d_snippet \in Snippets
    /\ d_description = None
    /\ PipelineIdle
    /\ EntryIdle
    /\ LimiterIdle
    /\ FlushIdle

Describe ==
    /\ d_description = None
    /\ d_description' = Description(d_snippet)
    /\ UNCHANGED <<d_snippet, pipeVars, entryVars, rlVars, flushVars>>

NextDesc == Describe

SpecDesc == InitDesc /\ [][NextDesc]_vars

\* C23: the description is the whitespace-normalized snippet when that has at
\* most 150 characters; otherwise it has at most 150 characters and is a
\* beginning of the normalized snippet that ends with a whole word, followed
\* by the ellipsis.
DescriptionTruncated ==
    d_description # None =>
        LET normal == Normalize(d_snippet)
            kept == Len(d_description) - Len(Ellipsis)
        IN /\ Len(normal) <= DescriptionLimit => d_description = normal
           /\ Len(normal) > DescriptionLimit =>
                 /\ Len(d_description) <= DescriptionLimit
                 /\ kept >= 0
                 /\ d_description = SubSeq(normal, 1, kept) \o Ellipsis
                 /\ normal[kept + 1] = " "

====
